---------------------------- MODULE Spec2Model ----------------------------
(***************************************************************************)
(* ClankerVids ingestion pipeline: relevance classifier, categorizers,     *)
(* identity resolver, add_video and run_scan of RedditCurator and          *)
(* RobotCurator, modelled as state machines over one shared video store.   *)
(* Text is modelled character by character: a title, a subreddit name or   *)
(* a keyword is a string, read with Len and SubSeq.  The alphabet of the   *)
(* modelled texts is ASCII.                                                *)
(***************************************************************************)
EXTENDS Integers, Sequences, FiniteSets, TLC

VARIABLES
    cls,        \* the classifier call under observation (pure-function checks)
    store,      \* the videos table: a sequence of rows, in insertion order
    last,       \* the most recent add_video call: its candidate and its outcome
    scan,       \* RedditCurator.run_scan: the listing, the position in it, the count
    procs       \* concurrent add_video calls: where each process stands

vars == <<cls, store, last, scan, procs>>

None == "<none>"

(***************************************************************************)
(* Text primitives                                                         *)
(***************************************************************************)

UpperChars == "ABCDEFGHIJKLMNOPQRSTUVWXYZ"
LowerChars == "abcdefghijklmnopqrstuvwxyz"
DigitChars == "0123456789_"

Min(a, b) == IF a < b THEN a ELSE b

CharAt(s, i) == SubSeq(s, i, i)

CharSet(s) == {CharAt(s, i) : i \in 1..Len(s)}

\* the lower-case letter of each upper-case letter
LowerMap ==
    [c \in CharSet(UpperChars) |->
        CharAt(LowerChars, CHOOSE i \in 1..Len(UpperChars) : CharAt(UpperChars, i) = c)]

\* [a-zA-Z0-9_]
WordChars == CharSet(LowerChars) \cup CharSet(UpperChars) \cup CharSet(DigitChars)

\* str.lower() of one character
LowerChar(c) == IF c \in DOMAIN LowerMap THEN LowerMap[c] ELSE c

RECURSIVE LowerFrom(_, _)
LowerFrom(s, i) ==
    IF i > Len(s) THEN "" ELSE LowerChar(CharAt(s, i)) \o LowerFrom(s, i + 1)

\* str.lower()
Lower(s) == LowerFrom(s, 1)

\* s[:n]
Take(s, n) == SubSeq(s, 1, Min(n, Len(s)))

IsSpace(c) == c = " "

RECURSIVE LStrip(_)
LStrip(s) ==
    IF Len(s) > 0 /\ IsSpace(CharAt(s, 1)) THEN LStrip(SubSeq(s, 2, Len(s))) ELSE s

RECURSIVE RStrip(_)
RStrip(s) ==
    IF Len(s) > 0 /\ IsSpace(CharAt(s, Len(s)))
    THEN RStrip(SubSeq(s, 1, Len(s) - 1)) ELSE s

\* str.strip()
Strip(s) == RStrip(LStrip(s))

\* the positions at which kw occurs in s
Occurrences(s, kw) ==
    {i \in 1..(Len(s) - Len(kw) + 1) : SubSeq(s, i, i + Len(kw) - 1) = kw}

\* kw in s
Contains(s, kw) == Occurrences(s, kw) # {}

\* \w at position i of s (false outside the string)
IsWordAt(s, i) == i \in 1..Len(s) /\ CharAt(s, i) \in WordChars

\* \b between positions i and i+1 of s
Boundary(s, i) == IsWordAt(s, i) # IsWordAt(s, i + 1)

\* re.search(r'\b' + re.escape(kw) + r'\b', s)
WordSearch(s, kw) ==
    \E i \in Occurrences(s, kw) : Boundary(s, i - 1) /\ Boundary(s, i + Len(kw) - 1)

(***************************************************************************)
(* RedditCurator: keyword configuration (reddit_curator.py, __init__)      *)
(***************************************************************************)

always_qualify_subs ==
    {"shittyrobots", "robotics", "battlebots", "bostondynamics",
     "mechanicalgifs", "humanoidrobots", "drones", "fpv",
     "multicopter", "diydrones"}

robot_keywords_substring ==
    {"robot", "robotic", "humanoid", "droid",
     "battlebots", "battlebot",
     "boston dynamics", "tesla bot", "tesla optimus",
     "unitree", "agility robotics", "1x technologies",
     "figure robot", "ameca", "sanctuary ai",
     "apptronik", "physical intelligence",
     "quadruped", "exoskeleton", "bionic", "cyborg",
     "robot arm", "robot dog", "robot hand",
     "warehouse robot", "delivery robot", "surgical robot",
     "industrial robot", "cobots", "cobot",
     "quadcopter", "multicopter", "uav", "unmanned aerial",
     "drone swarm", "drone show", "drone fail",
     "artificial intelligence", "machine learning",
     "self-driving", "automation", "automated",
     "servo", "actuator", "chatgpt"}

robot_keywords_exact ==
    {"ai", "drone", "drones", "gpt", "neural", "android",
     "autonomous", "mechanical", "fpv", "uav"}

contextual_keywords ==
    {"atlas", "spot", "optimus", "figure", "digit",
     "neo", "ameca", "agility", "nao", "pepper"}

context_helpers ==
    {"robot", "humanoid", "boston dynamics", "unitree", "tesla",
     "walking", "bipedal", "legged", "autonomous", "ai", "drone",
     "robotic", "arm", "manipulation"}

reddit_fail_keywords ==
    {"fail", "fails", "falling", "crash", "crashed", "oops",
     "malfunction", "broken", "glitch", "shitty", "disaster",
     "explosion", "explode", "breakdown", "error", "gone wrong",
     "dropped", "tipped", "fell", "stumble"}

reddit_battle_keywords == {"battle", "fight", "vs", "combat", "destroy", "battlebots"}

(***************************************************************************)
(* RobotCurator: keyword configuration (robot_curator.py, __init__)        *)
(***************************************************************************)

must_have_keywords ==
    {"robot", "robots", "robotic", "humanoid",
     "boston dynamics", "atlas", "spot", "optimus",
     "tesla bot", "figure", "digit", "unitree",
     "android", "automaton", "mech", "mechanical",
     "drone", "drones", "quadruped", "bipedal",
     "ai ", " ai", "artificial intelligence",
     "machine learning", "neural network",
     "chatgpt", "gpt-4", "claude", "gemini",
     "autonomous", "self-driving", "robodog",
     "exoskeleton", "cyborg", "bionic",
     "industrial robot", "robot arm", "robotic arm",
     "agility robotics", "xiaomi cyberone", "ameca",
     "sophia robot", "pepper robot", "asimo"}

robot_fail_keywords ==
    {"fail", "fails", "falling", "crash", "malfunction", "error", "bug",
     "glitch", "broken", "mistake", "oops", "disaster"}

epic_keywords ==
    {"amazing", "incredible", "insane", "mind-blowing", "impressive",
     "breakthrough", "revolutionary", "wow", "unbelievable"}

robot_battle_keywords ==
    {"battle", "fight", "vs", "competition", "battlebots", "combat", "destroy"}

exclude_keywords ==
    {"kitten", "cat", "dog", "puppy", "baby",
     "cooking", "recipe", "makeup", "fashion",
     "minecraft", "fortnite", "gaming walkthrough",
     "music video", "official video", "lyric video",
     "unboxing toy", "kids", "children"}

(***************************************************************************)
(* backend/app.py: detect_category_from_title keyword lists                *)
(***************************************************************************)

ugc_fail_keywords ==
    {"fail", "crash", "error", "malfunction", "broke", "broken", "falls",
     "fell", "trips", "trip", "stumble", "oops"}

ugc_battle_keywords ==
    {"battle", "fight", "combat", "vs", "versus", "war", "arena",
     "competition", "tournament"}

ugc_highlight_keywords ==
    {"highlight", "amazing", "awesome", "epic", "impressive", "incredible",
     "success", "achievement"}

\* any(kw in text for kw in kws)
AnyIn(kws, text) == \E kw \in kws : Contains(text, kw)

\* any whole-word occurrence of a member of kws in text
AnyWord(kws, text) == \E kw \in kws : WordSearch(text, kw)

(***************************************************************************)
(* RedditCurator classifier                                                *)
(***************************************************************************)

\* the trusted-source test without .lower(): the listed names compared as written
IsTrustedSubCaseSensitive(subreddit) == subreddit \in always_qualify_subs

\* the trusted-source test of is_robot_content
IsTrustedSub(subreddit) == Lower(subreddit) \in always_qualify_subs

\* the contextual loop without its helper test
ContextualMatchNoHelper(title_lower) ==
    \E kw \in contextual_keywords : WordSearch(title_lower, kw)

\* the contextual loop of is_robot_content
ContextualMatch(title_lower) ==
    \E kw \in contextual_keywords :
        WordSearch(title_lower, kw) /\ AnyIn(context_helpers, title_lower)

\* RedditCurator.is_robot_content(title, subreddit)
RedditIsRobotContent(title, subreddit) ==
    IF IsTrustedSub(subreddit) THEN TRUE
    ELSE LET title_lower == Lower(title) IN
         IF AnyIn(robot_keywords_substring, title_lower) THEN TRUE
         ELSE IF AnyWord(robot_keywords_exact, title_lower) THEN TRUE
         ELSE ContextualMatch(title_lower)

\* categorize with the battle test placed before the fail test
RedditCategorizeBattleFirst(title, subreddit) ==
    LET title_lower == Lower(title)
        sub_lower   == Lower(subreddit)
    IN  IF sub_lower = "battlebots" \/ AnyIn(reddit_battle_keywords, title_lower)
        THEN "battles"
        ELSE IF sub_lower \in {"shittyrobots", "whatcouldgowrong"}
                \/ AnyIn(reddit_fail_keywords, title_lower)
        THEN "fails"
        ELSE "highlights"

\* RedditCurator.categorize(title, subreddit)
RedditCategorize(title, subreddit) ==
    LET title_lower == Lower(title)
        sub_lower   == Lower(subreddit)
    IN  IF sub_lower \in {"shittyrobots", "whatcouldgowrong"}
           \/ AnyIn(reddit_fail_keywords, title_lower)
        THEN "fails"
        ELSE IF sub_lower = "battlebots" \/ AnyIn(reddit_battle_keywords, title_lower)
        THEN "battles"
        ELSE "highlights"

(***************************************************************************)
(* RobotCurator classifier                                                 *)
(***************************************************************************)

\* RobotCurator.is_robot_content(title, description)
RobotIsRobotContent(title, description) ==
    LET text        == Lower(title \o " " \o description)
        has_robot   == AnyIn(must_have_keywords, text)
        has_exclude == AnyIn(exclude_keywords, text)
    IN  has_robot /\ ~has_exclude

\* RobotCurator.categorize_video(title)
RobotCategorizeVideo(title) ==
    LET title_lower == Lower(title) IN
    IF AnyIn(robot_fail_keywords, title_lower) THEN "fails"
    ELSE IF AnyIn(robot_battle_keywords, title_lower) THEN "battles"
    ELSE IF AnyIn(epic_keywords, title_lower) THEN "highlights"
    ELSE "highlights"

(***************************************************************************)
(* backend/app.py                                                          *)
(***************************************************************************)

\* detect_category_from_title(title); a missing title is read as ""
DetectCategoryFromTitle(title) ==
    LET t == Lower(IF title = None THEN "" ELSE title) IN
    IF AnyIn(ugc_fail_keywords, t) THEN "fails"
    ELSE IF AnyIn(ugc_battle_keywords, t) THEN "battles"
    ELSE IF AnyIn(ugc_highlight_keywords, t) THEN "highlights"
    ELSE "highlights"

(***************************************************************************)
(* URL and thumbnail helpers                                               *)
(***************************************************************************)

\* [a-zA-Z0-9_-]
IsIdChar(c) == c = "-" \/ c \in WordChars

YoutubeIdLen == 11

\* the positions in url at which prefix is followed by an 11-character id
IdMatches(url, prefix) ==
    {i \in Occurrences(url, prefix) :
        /\ i + Len(prefix) + YoutubeIdLen - 1 <= Len(url)
        /\ \A k \in 0..(YoutubeIdLen - 1) : IsIdChar(CharAt(url, i + Len(prefix) + k))}

\* re.search(prefix + '([a-zA-Z0-9_-]{11})', url).group(1), for the leftmost match
IdAfter(url, prefix) ==
    LET i == CHOOSE i \in IdMatches(url, prefix) : \A j \in IdMatches(url, prefix) : i <= j
    IN  SubSeq(url, i + Len(prefix), i + Len(prefix) + YoutubeIdLen - 1)

\* RedditCurator.extract_youtube_id(url)
ExtractYoutubeId(url) ==
    LET watch == IdMatches(url, "youtube.com/watch?v=")
        short == IdMatches(url, "youtu.be/")
        embed == IdMatches(url, "youtube.com/embed/")
        first(S) == CHOOSE i \in S : \A j \in S : i <= j
    IN  IF watch # {} /\ (short = {} \/ first(watch) <= first(short))
        THEN IdAfter(url, "youtube.com/watch?v=")
        ELSE IF short # {} THEN IdAfter(url, "youtu.be/")
        ELSE IF embed # {} THEN IdAfter(url, "youtube.com/embed/")
        ELSE None

\* s.replace(old, new)
RECURSIVE ReplaceFrom(_, _, _, _)
ReplaceFrom(s, i, old, new) ==
    IF Len(s) - i + 1 < Len(old) THEN SubSeq(s, i, Len(s))
    ELSE IF SubSeq(s, i, i + Len(old) - 1) = old
         THEN new \o ReplaceFrom(s, i + Len(old), old, new)
         ELSE CharAt(s, i) \o ReplaceFrom(s, i + 1, old, new)

Replace(s, old, new) == ReplaceFrom(s, 1, old, new)

\* s.startswith(p)
StartsWith(s, p) == Len(s) >= Len(p) /\ SubSeq(s, 1, Len(p)) = p

\* the three thumbnail variants probed by best_youtube_thumbnail, in order
ThumbnailCandidates(youtube_id) ==
    << "https://i.ytimg.com/vi/" \o youtube_id \o "/maxresdefault.jpg",
       "https://i.ytimg.com/vi/" \o youtube_id \o "/sddefault.jpg",
       "https://i.ytimg.com/vi/" \o youtube_id \o "/hqdefault.jpg" >>

MinThumbnailBytes == 5000

\* what one HEAD probe can return: a status and a Content-Length, or an exception
ProbeResults ==
    { [status |-> 200, length |-> 120000], [status |-> 200, length |-> 1097],
      [status |-> 404, length |-> 0],      [status |-> 0,   length |-> 0] }

ProbeRaised(r) == r.status = 0

ProbeOutcomes == [1..3 -> ProbeResults]

\* the probes of a call that never reaches best_youtube_thumbnail
NoProbe == [i \in 1..3 |-> [status |-> 0, length |-> 0]]

\* RedditCurator.best_youtube_thumbnail(youtube_id), given the probes' results
BestYoutubeThumbnail(youtube_id, probe) ==
    LET candidates == ThumbnailCandidates(youtube_id)
        good(i) == /\ ~ProbeRaised(probe[i])
                   /\ probe[i].status = 200
                   /\ probe[i].length > MinThumbnailBytes
    IN  IF \E i \in 1..3 : good(i)
        THEN candidates[CHOOSE i \in 1..3 : good(i) /\ \A j \in 1..3 : good(j) => i <= j]
        ELSE "https://i.ytimg.com/vi/" \o youtube_id \o "/hqdefault.jpg"

(***************************************************************************)
(* Sizes fixed by the code                                                 *)
(***************************************************************************)

TitlePrefixLen == 50
StoredTitleLen == 200
StoredDescriptionLen == 500
StoredUploaderLen == 50
DefaultDuration == 30

(***************************************************************************)
(* Candidates                                                              *)
(***************************************************************************)

LongTitle == "Boston Dynamics Atlas robot falls down the stairs in the lab"

Post(title, url, subreddit, is_video, fallback_url, preview, thumbnail) ==
    [ title |-> title, url |-> url, subreddit |-> subreddit, score |-> 1500,
      author |-> "u1", is_video |-> is_video, fallback_url |-> fallback_url,
      preview |-> preview, thumbnail |-> thumbnail ]

\* Reddit posts, as fetch_subreddit hands them to add_video
RedditPosts ==
    { Post("Robot Fail compilation", "https://www.youtube.com/watch?v=dQw4w9WgXcQ",
           "videos", FALSE, None, "", "default"),
      Post("atlas robot falls", "https://youtu.be/dQw4w9WgXcQ",
           "Battlebots", FALSE, None, "", "default"),
      Post(LongTitle, "https://www.reddit.com/r/robotics/comments/x1",
           "robotics", TRUE, "https://v.redd.it/f1/DASH_720.mp4", "",
           "https://b.thumbs.redditmedia.com/f1.jpg"),
      Post("humanoid robot dances", "https://www.reddit.com/r/videos/comments/x2",
           "videos", TRUE, "https://v.redd.it/f1/DASH_720.mp4", "", "default"),
      Post("kitten plays with robot toy", "https://v.redd.it/v1",
           "videos", TRUE, None, "https://preview.redd.it/v1.jpg?a=1&amp;b=2", ""),
      Post("Tuesday livestream highlights", "https://v.redd.it/v2",
           "videos", TRUE, None, "", "https://b.thumbs.redditmedia.com/v2.jpg"),
      Post("Tuesday livestream highlights", "https://v.redd.it/v2",
           "Battlebots", TRUE, None, "", "https://b.thumbs.redditmedia.com/v2.jpg"),
      Post("spotted a deer in the rain", "https://www.youtube.com/watch?v=aaaaaaaaaaB",
           "funny", FALSE, None, "", "default"),
      Post("robot fail compilation", "https://v.redd.it/v3",
           "funny", TRUE, None, "", ""),
      Post("drone show", "https://i.imgur.com/pic.jpg",
           "videos", FALSE, None, "", "default") }

Info(id, title, description) ==
    [ id |-> id, title |-> title, description |-> description, duration |-> 95,
      view_count |-> 1000, uploader |-> "RoboChannel",
      webpage_url |-> "https://www.youtube.com/watch?v=" \o id ]

\* video_info records, as get_video_info hands them to add_video
VideoInfos ==
    { Info("dQw4w9WgXcQ", "Robot Fail compilation", ""),
      Info("aaaaaaaaaaB", "spotted a deer in the rain", ""),
      Info("aaaaaaaaaaC", "kitten plays with robot toy", "a toy robot"),
      Info("aaaaaaaaaaD", "Tuesday livestream highlights", "weekly stream") }

(***************************************************************************)
(* Per-candidate facts, computed once                                     *)
(***************************************************************************)

\* title[:50].lower().strip(), the key video_exists looks a title up by
TitlePrefix(title) == Strip(Lower(Take(title, TitlePrefixLen)))

\* LOWER(SUBSTR(title, 1, 50)) of a stored title
SqlTitlePrefix(title) == Lower(Take(title, TitlePrefixLen))

CandidateTitles == {p.title : p \in RedditPosts} \cup {v.title : v \in VideoInfos}

TitlePrefixOf == [t \in CandidateTitles |-> TitlePrefix(t)]

SqlTitlePrefixOf ==
    [t \in {Take(c, StoredTitleLen) : c \in CandidateTitles} |-> SqlTitlePrefix(t)]

(***************************************************************************)
(* The videos table                                                        *)
(***************************************************************************)

\* SELECT 1 FROM videos WHERE youtube_id = ?   (NULL never compares equal)
HasYoutubeId(rows, youtube_id) ==
    youtube_id # None /\ \E i \in 1..Len(rows) : rows[i].youtube_id = youtube_id

\* SELECT 1 FROM videos WHERE video_url = ?
HasVideoUrl(rows, video_url) ==
    \E i \in 1..Len(rows) : rows[i].video_url = video_url

\* SELECT 1 FROM videos WHERE LOWER(SUBSTR(title, 1, 50)) = ?
HasTitlePrefix(rows, title_prefix) ==
    \E i \in 1..Len(rows) : SqlTitlePrefixOf[rows[i].title] = title_prefix

\* RedditCurator.video_exists(video_url, youtube_id, title)
RedditVideoExists(rows, video_url, youtube_id, title) ==
    IF youtube_id # None /\ HasYoutubeId(rows, youtube_id) THEN TRUE
    ELSE IF HasVideoUrl(rows, video_url) THEN TRUE
    ELSE IF title # "" /\ HasTitlePrefix(rows, TitlePrefixOf[title])
         THEN TRUE
    ELSE FALSE

\* RobotCurator.video_exists(youtube_id)
RobotVideoExists(rows, youtube_id) == HasYoutubeId(rows, youtube_id)

\* a row that starts without the post's score and with a reaction counted
RedditRowNoSeed(post, youtube_id, video_url, thumbnail_url, category) ==
    [ title         |-> Take(post.title, StoredTitleLen),
      description   |-> <<"From r/", post.subreddit, post.score, " upvotes">>,
      creator       |-> "@" \o post.author,
      category      |-> category,
      views         |-> 0,
      clanks        |-> 1,
      epic_bots     |-> 0,
      system_errors |-> 0,
      comments      |-> 0,
      shares        |-> 0,
      thumbnail_url |-> thumbnail_url,
      video_url     |-> video_url,
      status        |-> "active",
      duration      |-> DefaultDuration,
      youtube_id    |-> youtube_id,
      view_count    |-> post.score ]

\* the row RedditCurator.add_video inserts
RedditRow(post, youtube_id, video_url, thumbnail_url, category) ==
    [ title         |-> Take(post.title, StoredTitleLen),
      description   |-> <<"From r/", post.subreddit, post.score, " upvotes">>,
      creator       |-> "@" \o post.author,
      category      |-> category,
      views         |-> post.score,
      clanks        |-> 0,
      epic_bots     |-> 0,
      system_errors |-> 0,
      comments      |-> 0,
      shares        |-> 0,
      thumbnail_url |-> thumbnail_url,
      video_url     |-> video_url,
      status        |-> "active",
      duration      |-> DefaultDuration,
      youtube_id    |-> youtube_id,
      view_count    |-> post.score ]

\* the row RobotCurator.add_video inserts
RobotRow(video_info, thumbnail_url, category) ==
    [ title         |-> Take(video_info.title, StoredTitleLen),
      description   |-> IF video_info.description # ""
                        THEN Take(video_info.description, StoredDescriptionLen)
                        ELSE "Discovered by ClankerVids Bot",
      creator       |-> "@" \o Take(video_info.uploader, StoredUploaderLen),
      category      |-> category,
      views         |-> video_info.view_count,
      clanks        |-> 0,
      epic_bots     |-> 0,
      system_errors |-> 0,
      comments      |-> 0,
      shares        |-> 0,
      thumbnail_url |-> thumbnail_url,
      video_url     |-> video_info.webpage_url,
      status        |-> "active",
      duration      |-> video_info.duration,
      youtube_id    |-> video_info.id,
      view_count    |-> video_info.view_count ]

\* an insert that replaces what the table held
InsertReplacing(rows, row) == <<row>>

\* INSERT INTO videos ...; conn.commit()
Insert(rows, row) == Append(rows, row)

(***************************************************************************)
(* add_video                                                               *)
(***************************************************************************)

\* the thumbnail of a v.redd.it post: preview image, else the post thumbnail
RedditPreviewThumbnail(post) ==
    LET from_preview == Replace(post.preview, "&amp;", "&")
    IN  IF from_preview # "" THEN from_preview ELSE post.thumbnail

\* "Clean up thumbnail URL" in RedditCurator.add_video
CleanThumbnail(thumbnail_url) ==
    IF thumbnail_url # "" /\ StartsWith(thumbnail_url, "http")
    THEN Replace(thumbnail_url, "&amp;", "&")
    ELSE ""

\* a media branch that takes any url as a video
RedditMediaAnyUrl(post, youtube_id, probe) ==
    IF youtube_id # None
    THEN [ usable        |-> TRUE,
           video_url     |-> "https://www.youtube.com/watch?v=" \o youtube_id,
           thumbnail_url |-> BestYoutubeThumbnail(youtube_id, probe) ]
    ELSE [ usable        |-> TRUE,
           video_url     |-> post.url,
           thumbnail_url |-> post.thumbnail ]

\* the media branch of RedditCurator.add_video: the video_url and thumbnail_url
\* of a post; usable is FALSE for a post that is "not a video we can use"
RedditMedia(post, youtube_id, probe) ==
    IF youtube_id # None
    THEN [ usable        |-> TRUE,
           video_url     |-> "https://www.youtube.com/watch?v=" \o youtube_id,
           thumbnail_url |-> BestYoutubeThumbnail(youtube_id, probe) ]
    ELSE IF Contains(post.url, "v.redd.it")
    THEN [ usable        |-> TRUE,
           video_url     |-> post.url,
           thumbnail_url |-> RedditPreviewThumbnail(post) ]
    ELSE IF post.is_video
    THEN [ usable        |-> TRUE,
           video_url     |-> IF post.fallback_url # None THEN post.fallback_url
                             ELSE post.url,
           thumbnail_url |-> post.thumbnail ]
    ELSE [ usable |-> FALSE, video_url |-> "", thumbnail_url |-> "" ]

\* what RedditCurator.add_video derives from a post without reading the table:
\* the classifier's answers and the YouTube id
RedditFacts ==
    [post \in RedditPosts |->
        [ relevant   |-> RedditIsRobotContent(post.title, post.subreddit),
          youtube_id |-> ExtractYoutubeId(post.url),
          category   |-> RedditCategorize(post.title, post.subreddit) ]]

\* the variant best_youtube_thumbnail settles on: the first whose probe is
\* good, hqdefault (the third) when none is
BestVariant(probe) ==
    LET good(i) == /\ ~ProbeRaised(probe[i])
                   /\ probe[i].status = 200
                   /\ probe[i].length > MinThumbnailBytes
    IN  IF good(1) THEN 1 ELSE IF good(2) THEN 2 ELSE 3

\* probes whose first good answer is that of variant k
VariantProbe(k) ==
    [i \in 1..3 |-> IF i = k THEN [status |-> 200, length |-> 120000]
                             ELSE [status |-> 404, length |-> 0]]

\* for a post and the variant its thumbnail probes settle on: whether the
\* post is a video add_video can use, and the row add_video would insert
RedditInsertByVariant ==
    [post \in RedditPosts |->
        [k \in 1..3 |->
            LET f     == RedditFacts[post]
                media == RedditMedia(post, f.youtube_id, VariantProbe(k))
            IN  [ usable |-> media.usable,
                  row    |-> RedditRow(post, f.youtube_id, media.video_url,
                                       CleanThumbnail(media.thumbnail_url),
                                       f.category) ]]]

\* the same for a post and the results of its thumbnail probes
RedditInsert(post, probe) == RedditInsertByVariant[post][BestVariant(probe)]

\* what RobotCurator.add_video derives from a video_info without reading the table
RobotFacts ==
    [video_info \in VideoInfos |->
        LET category == RobotCategorizeVideo(video_info.title) IN
        [ relevant |-> RobotIsRobotContent(video_info.title, video_info.description),
          category |-> category,
          row      |-> RobotRow(video_info,
                                "https://i.ytimg.com/vi/" \o video_info.id
                                    \o "/maxresdefault.jpg",
                                category) ]]

\* add_video that asks video_exists before is_robot_content
RedditAddVideoOnResolverFirst(rows, post, probe) ==
    LET f == RedditFacts[post] IN
    IF RedditVideoExists(rows, post.url, f.youtube_id, post.title)
    THEN [outcome |-> "exists", ret |-> FALSE, rows |-> rows]
    ELSE IF ~f.relevant
    THEN [outcome |-> "not_relevant", ret |-> FALSE, rows |-> rows]
    ELSE LET ins == RedditInsert(post, probe) IN
         IF ~ins.usable
         THEN [outcome |-> "no_media", ret |-> FALSE, rows |-> rows]
         ELSE [outcome |-> "stored", ret |-> TRUE, rows |-> Insert(rows, ins.row)]

\* RedditCurator.add_video(post) on the table rows: the call's outcome, its
\* return value and the table afterwards
RedditAddVideoOn(rows, post, probe) ==
    LET f == RedditFacts[post] IN
    IF ~f.relevant
    THEN [outcome |-> "not_relevant", ret |-> FALSE, rows |-> rows]
    ELSE IF RedditVideoExists(rows, post.url, f.youtube_id, post.title)
    THEN [outcome |-> "exists", ret |-> FALSE, rows |-> rows]
    ELSE LET ins == RedditInsert(post, probe) IN
         IF ~ins.usable
         THEN [outcome |-> "no_media", ret |-> FALSE, rows |-> rows]
         ELSE [outcome |-> "stored", ret |-> TRUE, rows |-> Insert(rows, ins.row)]

\* add_video that answers True for a video it found in the table
RobotAddVideoOnExistsAdded(rows, video_info) ==
    LET f == RobotFacts[video_info] IN
    IF ~f.relevant
    THEN [outcome |-> "not_relevant", ret |-> FALSE, rows |-> rows]
    ELSE IF RobotVideoExists(rows, video_info.id)
    THEN [outcome |-> "exists", ret |-> TRUE, rows |-> rows]
    ELSE [outcome |-> "stored", ret |-> TRUE, rows |-> Insert(rows, f.row)]

\* RobotCurator.add_video(video_info) on the table rows
RobotAddVideoOn(rows, video_info) ==
    LET f == RobotFacts[video_info] IN
    IF ~f.relevant
    THEN [outcome |-> "not_relevant", ret |-> FALSE, rows |-> rows]
    ELSE IF RobotVideoExists(rows, video_info.id)
    THEN [outcome |-> "exists", ret |-> FALSE, rows |-> rows]
    ELSE [outcome |-> "stored", ret |-> TRUE, rows |-> Insert(rows, f.row)]

(***************************************************************************)
(* Sequential ingestion: add_video calls, one after another                *)
(***************************************************************************)

MaxStore == 2

NoCall == [adapter |-> "none", cand |-> [title |-> ""], outcome |-> "none", ret |-> FALSE]

NoClassify ==
    [title |-> "", description |-> "", subreddit |-> "", fn |-> "none",
     accept |-> FALSE, category |-> None]

\* no scan is running
NoScan == [pc |-> "idle"]

\* no concurrent process is running
NoProcs == <<>>

Init ==
    /\ store = <<>>
    /\ last = NoCall
    /\ cls = NoClassify
    /\ scan = NoScan
    /\ procs = NoProcs

\* one call of RedditCurator.add_video
RedditAddVideo(post, probe) ==
    LET r == RedditAddVideoOn(store, post, probe) IN
    /\ Len(r.rows) <= MaxStore
    /\ store' = r.rows
    /\ last' = [adapter |-> "reddit", cand |-> post, outcome |-> r.outcome, ret |-> r.ret]
    /\ UNCHANGED <<cls, scan, procs>>

\* one call of RobotCurator.add_video
RobotAddVideo(video_info) ==
    LET r == RobotAddVideoOn(store, video_info) IN
    /\ Len(r.rows) <= MaxStore
    /\ store' = r.rows
    /\ last' = [adapter |-> "robot", cand |-> video_info, outcome |-> r.outcome,
                ret |-> r.ret]
    /\ UNCHANGED <<cls, scan, procs>>

\* the probes a call makes: best_youtube_thumbnail runs only for a relevant,
\* absent post with a YouTube id
ProbesOf(rows, post) ==
    LET f == RedditFacts[post] IN
    IF /\ f.relevant
       /\ f.youtube_id # None
       /\ ~RedditVideoExists(rows, post.url, f.youtube_id, post.title)
    THEN ProbeOutcomes
    ELSE {NoProbe}

Next ==
    \/ \E post \in RedditPosts : \E probe \in ProbesOf(store, post) :
          RedditAddVideo(post, probe)
    \/ \E video_info \in VideoInfos : RobotAddVideo(video_info)

Spec == Init /\ [][Next]_vars

(***************************************************************************)
(* The classifiers and categorizers as pure functions of their inputs      *)
(***************************************************************************)

ClassifyTitles ==
    { "Tuesday livestream highlights", "kitten plays with robot toy",
      "spotted a deer in the rain", "spot the robot", "spot on the farm",
      "atlas of the world", "tesla walking tour", "Atlas walking downstairs",
      "quaver practice", "AI beats human", "robot battle fail",
      "Battlebots fight ends in crash", "drone crash vs tree",
      "epic combat arena error", "robot bug fight", "robot explosion battle",
      "my android phone", "mechanical keyboard", "robot fight",
      "bonsai garden", "", LongTitle }

ClassifyDescriptions == { "", "a robot video", "kids cooking" }

ClassifySubreddits ==
    { "shittyrobots", "Battlebots", "BATTLEBOTS", "videos", "Whatcouldgowrong", "funny" }

InitClassify ==
    /\ cls \in { [title |-> t, description |-> d, subreddit |-> s, fn |-> "none",
                  accept |-> FALSE, category |-> None] :
                 t \in ClassifyTitles, d \in ClassifyDescriptions,
                 s \in ClassifySubreddits }
    /\ store = <<>>
    /\ last = NoCall
    /\ scan = NoScan
    /\ procs = NoProcs

\* RedditCurator: is_robot_content(title, subreddit), then categorize for an
\* accepted candidate, as add_video calls them
ClassifyReddit ==
    LET accept == RedditIsRobotContent(cls.title, cls.subreddit) IN
    /\ cls' = [cls EXCEPT !.fn = "reddit", !.accept = accept,
                          !.category = IF accept
                                       THEN RedditCategorize(cls.title, cls.subreddit)
                                       ELSE None]
    /\ UNCHANGED <<store, last, scan, procs>>

\* RobotCurator: is_robot_content(title, description), then categorize_video for
\* an accepted candidate, as add_video calls them
ClassifyRobot ==
    LET accept == RobotIsRobotContent(cls.title, cls.description) IN
    /\ cls' = [cls EXCEPT !.fn = "robot", !.accept = accept,
                          !.category = IF accept THEN RobotCategorizeVideo(cls.title)
                                       ELSE None]
    /\ UNCHANGED <<store, last, scan, procs>>

\* backend: detect_category_from_title(title); it has no relevance gate
DetectCategory ==
    /\ cls' = [cls EXCEPT !.fn = "ugc", !.accept = TRUE,
                          !.category = DetectCategoryFromTitle(cls.title)]
    /\ UNCHANGED <<store, last, scan, procs>>

NextClassify == ClassifyReddit \/ ClassifyRobot \/ DetectCategory

SpecClassify == InitClassify /\ [][NextClassify]_vars

(***************************************************************************)
(* Properties of the classifiers and categorizers (SpecClassify)           *)
(***************************************************************************)

\* C5: a Reddit candidate whose subreddit, compared case-insensitively, is in
\* always_qualify_subs is accepted by is_robot_content whatever its title,
\* also a title without any robot/AI keyword.
C5_TrustedSourceAccepted ==
    (cls.fn = "reddit" /\ Lower(cls.subreddit) \in always_qualify_subs) => cls.accept

\* a keyword-free title from r/Battlebots (the spelling of self.subreddits) is accepted
C5_TrustedAcceptedWitness ==
    /\ cls.fn = "reddit"
    /\ cls.subreddit = "Battlebots"
    /\ cls.title = "Tuesday livestream highlights"
    /\ cls.accept

\* C8: ambiguous and contextual tokens give a relevance signal only as whole
\* words: a candidate accepted by RedditCurator (non-trusted, no substring
\* keyword) or by RobotCurator has a whole-word occurrence of such a token or
\* a keyword that is not such a token; and "spot the robot" is accepted.
C8_TokensMatchWholeWords ==
    LET tokens      == robot_keywords_exact \cup contextual_keywords
        title_lower == Lower(cls.title)
        text        == Lower(cls.title \o " " \o cls.description)
    IN  /\ ( /\ cls.fn = "reddit"
             /\ cls.accept
             /\ Lower(cls.subreddit) \notin always_qualify_subs
             /\ ~AnyIn(robot_keywords_substring, title_lower) )
           => AnyWord(tokens, title_lower)
        /\ (cls.fn = "robot" /\ cls.accept)
           => \/ AnyIn(must_have_keywords \ tokens, text)
              \/ AnyWord(must_have_keywords \cap tokens, text)
        /\ ( /\ cls.fn \in {"reddit", "robot"}
             /\ cls.title = "spot the robot"
             /\ cls.description = "" )
           => cls.accept

C10_FailBeforeBattle ==
    LET title_lower == Lower(cls.title) IN
    /\ ( /\ cls.fn = "reddit" /\ cls.accept
         /\ AnyIn(reddit_fail_keywords, title_lower)
         /\ AnyIn(reddit_battle_keywords, title_lower) ) => cls.category = "fails"
    /\ ( /\ cls.fn = "robot" /\ cls.accept
         /\ AnyIn(robot_fail_keywords, title_lower)
         /\ AnyIn(robot_battle_keywords, title_lower) ) => cls.category = "fails"
    /\ ( /\ cls.fn = "ugc" /\ cls.accept
         /\ AnyIn(ugc_fail_keywords, title_lower)
         /\ AnyIn(ugc_battle_keywords, title_lower) ) => cls.category = "fails"

\* a non-trusted title with "battle" and "fail" is categorized "fails" by categorize
C10_BothKeywordsWitness ==
    /\ cls.fn = "reddit"
    /\ cls.subreddit = "videos"
    /\ cls.title = "robot battle fail"
    /\ cls.accept
    /\ cls.category = "fails"

(***************************************************************************)
(* Properties of sequential ingestion (Spec)                               *)
(***************************************************************************)

\* C1: after any sequence of add_video calls of the two curators on one
\* store, no two rows share a non-null youtube_id and no two rows share a
\* video_url.
C1_NaturalKeyUnique ==
    \A i, j \in 1..Len(store) :
        i < j => /\ store[i].youtube_id # None
                    => store[i].youtube_id # store[j].youtube_id
                 /\ store[i].video_url # store[j].video_url

\* C3: once add_video has committed a candidate, video_exists called for the
\* same candidate returns True.
C3_CommittedIsFound ==
    last.outcome = "stored"
    => IF last.adapter = "reddit"
       THEN RedditVideoExists(store, last.cand.url,
                              RedditFacts[last.cand].youtube_id, last.cand.title)
       ELSE RobotVideoExists(store, last.cand.id)

\* C6: a call of add_video for a candidate from a non-trusted source whose
\* text has no substring keyword, no whole-word exact keyword and no
\* whole-word contextual name with a helper term ends as not relevant, with
\* nothing written.
C6_NoSignalNotStored ==
    LET text == IF last.adapter = "reddit" THEN Lower(last.cand.title)
                ELSE Lower(last.cand.title \o " " \o last.cand.description)
        trusted == last.adapter = "reddit"
                   /\ Lower(last.cand.subreddit) \in always_qualify_subs
    IN  ( /\ last.adapter \in {"reddit", "robot"}
          /\ ~trusted
          /\ ~AnyIn(robot_keywords_substring, text)
          /\ ~AnyWord(robot_keywords_exact, text)
          /\ ~(AnyWord(contextual_keywords, text) /\ AnyIn(context_helpers, text)) )
        => (last.outcome = "not_relevant" /\ ~last.ret)

\* C7: no adapter's add_video stores a candidate whose text contains an
\* exclude phrase as a substring.
C7_ExcludedNeverStored ==
    LET text == IF last.adapter = "reddit" THEN Lower(last.cand.title)
                ELSE Lower(last.cand.title \o " " \o last.cand.description)
    IN  (last.adapter \in {"reddit", "robot"} /\ AnyIn(exclude_keywords, text))
        => last.outcome # "stored"

(***************************************************************************)
(* RedditCurator.run_scan over a listing feed that stays the same          *)
(***************************************************************************)

MaxRuns == 2

LimitPerSub == 30

\* self.subreddits, two of its entries in the order of the list
subreddits == <<"robotics", "videos">>

PostOf(title, subreddit) ==
    CHOOSE p \in RedditPosts : p.title = title /\ p.subreddit = subreddit

\* what Reddit can list for a subreddit
ListingsOf(subreddit) ==
    IF subreddit = "robotics"
    THEN { <<>>, <<PostOf(LongTitle, "robotics")>> }
    ELSE { <<PostOf("Robot Fail compilation", "videos")>>,
           <<PostOf("kitten plays with robot toy", "videos"),
             PostOf("drone show", "videos")>> }

Sorts == {"top", "hot"}

\* the listings Reddit serves, per subreddit and sort order
Feeds ==
    LET subs == {subreddits[i] : i \in 1..Len(subreddits)}
        all  == UNION {ListingsOf(s) : s \in subs}
    IN  {feed \in [subs \X Sorts -> all] :
            \A k \in subs \X Sorts : feed[k] \in ListingsOf(k[1])}

\* listing[:limit]
TakeSeq(listing, limit) == SubSeq(listing, 1, Min(limit, Len(listing)))

\* add_video with a failed INSERT that is reported as an added video
RedditAddVideoDbErrorAdded(rows, post, probe, db) ==
    LET r == RedditAddVideoOn(rows, post, probe) IN
    IF db = "up" THEN r
    ELSE [outcome |-> "error", ret |-> TRUE, rows |-> rows]

\* RedditCurator.add_video(post) when the store may fail: db = "up", or
\* "write_fails" (the INSERT of this call raises), or "down" (every
\* sqlite3 call raises: video_exists answers False from its bare except,
\* the INSERT lands in `except Exception` and the call returns False)
RedditAddVideoDb(rows, post, probe, db) ==
    IF db = "up" THEN RedditAddVideoOn(rows, post, probe)
    ELSE LET f == RedditFacts[post] IN
         IF ~f.relevant
         THEN [outcome |-> "not_relevant", ret |-> FALSE, rows |-> rows]
         ELSE IF db # "down"
                 /\ RedditVideoExists(rows, post.url, f.youtube_id, post.title)
         THEN [outcome |-> "exists", ret |-> FALSE, rows |-> rows]
         ELSE IF ~RedditInsert(post, probe).usable
         THEN [outcome |-> "no_media", ret |-> FALSE, rows |-> rows]
         ELSE [outcome |-> "error", ret |-> FALSE, rows |-> rows]

InitScan ==
    /\ store = <<>>
    /\ last = NoCall
    /\ cls = NoClassify
    /\ procs = NoProcs
    /\ \E feed \in Feeds :
          scan = [curator |-> "reddit", pc |-> "idle", run |-> 0, feed |-> feed,
                  sub |-> 1, sort |-> "top",
                  posts |-> <<>>, added |-> 0, fetched |-> {}, db |-> "up",
                  fetch_failed |-> FALSE, store_failed |-> FALSE,
                  interrupted |-> FALSE, noticed |-> FALSE,
                  went_on |-> FALSE]

\* run_scan is called: added = 0, the first subreddit, its top listing
StartScan ==
    /\ scan.curator = "reddit"
    /\ scan.pc \in {"idle", "done", "killed"}
    /\ scan.run < MaxRuns
    /\ scan' = [scan EXCEPT !.pc = "fetch", !.run = @ + 1, !.sub = 1, !.sort = "top",
                            !.posts = <<>>, !.added = 0, !.fetched = {}]
    /\ UNCHANGED <<cls, store, last, procs>>

\* fetch_subreddit answers with status 200: the listing, cut to the limit
FetchOk ==
    /\ scan.pc = "fetch"
    /\ LET limit == IF scan.sort = "top" THEN LimitPerSub ELSE LimitPerSub \div 2 IN
       scan' = [scan EXCEPT !.pc = "posts",
                            !.posts = TakeSeq(scan.feed[<<subreddits[scan.sub], scan.sort>>],
                                              limit),
                            !.fetched = @ \cup {<<scan.sub, scan.sort>>},
                            !.went_on = @ \/ scan.noticed]
    /\ UNCHANGED <<cls, store, last, procs>>

\* a fetch failure that ends the run
FetchFailAborts ==
    /\ scan.pc = "fetch"
    /\ scan' = [scan EXCEPT !.pc = "done", !.posts = <<>>, !.fetch_failed = TRUE,
                            !.fetched = @ \cup {<<scan.sub, scan.sort>>},
                            !.went_on = @ \/ scan.noticed]
    /\ UNCHANGED <<cls, store, last, procs>>

\* fetch_subreddit gets another status or an exception: it returns []
FetchFail ==
    /\ scan.pc = "fetch"
    /\ scan' = [scan EXCEPT !.pc = "posts", !.posts = <<>>, !.fetch_failed = TRUE,
                            !.fetched = @ \cup {<<scan.sub, scan.sort>>},
                            !.went_on = @ \/ scan.noticed]
    /\ UNCHANGED <<cls, store, last, procs>>

\* for post in posts: if self.add_video(post): added += 1
ScanAddVideo(probe, write_ok) ==
    /\ scan.pc = "posts"
    /\ scan.posts # <<>>
    /\ LET post == Head(scan.posts)
           db   == IF scan.db = "down" THEN "down"
                   ELSE IF write_ok THEN "up" ELSE "write_fails"
           r    == RedditAddVideoDb(store, post, probe, db)
       IN  /\ ~write_ok => r.outcome = "error"
           /\ store' = r.rows
           /\ last' = [adapter |-> "reddit", cand |-> post, outcome |-> r.outcome,
                       ret |-> r.ret]
           /\ scan' = [scan EXCEPT !.posts = Tail(@),
                                   !.added = IF r.ret THEN @ + 1 ELSE @,
                                   !.store_failed = @ \/ r.outcome = "error",
                                   !.noticed = @ \/ (scan.db = "down"
                                                     /\ RedditFacts[post].relevant),
                                   !.went_on = @ \/ scan.noticed]
    /\ UNCHANGED <<cls, procs>>

\* the listing is used up: after top comes hot, after hot the sleep
EndListing ==
    /\ scan.pc = "posts"
    /\ scan.posts = <<>>
    /\ scan' = IF scan.sort = "top"
               THEN [scan EXCEPT !.pc = "fetch", !.sort = "hot"]
               ELSE [scan EXCEPT !.pc = "sleep"]
    /\ UNCHANGED <<cls, store, last, procs>>

\* time.sleep(1), then the next subreddit, or return added
NextSubreddit ==
    /\ scan.pc = "sleep"
    /\ scan' = IF scan.sub < Len(subreddits)
               THEN [scan EXCEPT !.pc = "fetch", !.sub = @ + 1, !.sort = "top"]
               ELSE [scan EXCEPT !.pc = "done"]
    /\ UNCHANGED <<cls, store, last, procs>>

\* the database becomes unreachable and stays so
StoreGoesDown ==
    /\ scan.pc \in {"fetch", "posts", "sleep"}
    /\ scan.db = "up"
    /\ scan' = [scan EXCEPT !.db = "down", !.store_failed = TRUE]
    /\ UNCHANGED <<cls, store, last, procs>>

\* the scan process is terminated between two statements of run_scan
\* (stop_bot: bot_process.terminate())
Interrupt ==
    /\ scan.pc \in {"fetch", "posts", "sleep"}
    /\ scan.db = "up"
    /\ scan' = [scan EXCEPT !.pc = "killed", !.posts = <<>>, !.interrupted = TRUE]
    /\ UNCHANGED <<cls, store, last, procs>>

\* the thumbnail probes of the next add_video of the scan; when the INSERT is
\* going to fail, what the probes answered has no effect on the call
ScanProbesOf(write_ok) ==
    IF write_ok /\ scan.db = "up" /\ scan.pc = "posts" /\ scan.posts # <<>>
    THEN ProbesOf(store, Head(scan.posts))
    ELSE {NoProbe}

NextScan ==
    \/ StartScan
    \/ FetchOk
    \/ FetchFail
    \/ \E write_ok \in BOOLEAN : \E probe \in ScanProbesOf(write_ok) :
          ScanAddVideo(probe, write_ok)
    \/ EndListing
    \/ NextSubreddit
    \/ StoreGoesDown
    \/ Interrupt

SpecScan == InitScan /\ [][NextScan]_vars

\* C2: over an unchanged feed, with every listing fetched, no store failure
\* and no interruption, a second run of run_scan adds no row: its count of
\* added videos stays 0.
C2_SecondRunAddsNothing ==
    ( /\ scan.pc # "idle" /\ scan.run >= 2
      /\ ~scan.fetch_failed /\ ~scan.store_failed /\ ~scan.interrupted )
    => scan.added = 0

(***************************************************************************)
(* Two ingestion processes on one store.  add_video opens a connection for *)
(* video_exists and another one for its INSERT; no lock and no transaction *)
(* spans the two, so each is a step of its own.                            *)
(***************************************************************************)

\* the posts the Reddit processes come across
ConcPosts ==
    { PostOf("Robot Fail compilation", "videos"),
      PostOf("atlas robot falls", "Battlebots"),
      PostOf("Tuesday livestream highlights", "Battlebots"),
      PostOf("spotted a deer in the rain", "funny"),
      PostOf("drone show", "videos") }

Proc(adapter) ==
    [adapter |-> adapter, pc |-> "idle", cand |-> [title |-> ""], outcome |-> "none"]

\* process 1 is a Reddit scan; process 2 is a second Reddit scan (manual_scan
\* starts one whatever else runs) or the YouTube curator
InitConc ==
    /\ store = <<>>
    /\ last = NoCall
    /\ cls = NoClassify
    /\ scan = NoScan
    /\ \E adapter \in {"reddit", "robot"} : procs = <<Proc("reddit"), Proc(adapter)>>

Writers == {p \in 1..Len(procs) : procs[p].pc = "write"}

\* add_video up to and including video_exists: the call returns False, or goes
\* on to its INSERT
ConcCheck(p, cand) ==
    /\ procs[p].pc = "idle"
    /\ Len(store) + Cardinality(Writers) < MaxStore
    /\ LET reddit   == procs[p].adapter = "reddit"
           relevant == IF reddit THEN RedditFacts[cand].relevant
                       ELSE RobotFacts[cand].relevant
           exists   == IF reddit
                       THEN RedditVideoExists(store, cand.url,
                                              RedditFacts[cand].youtube_id, cand.title)
                       ELSE RobotVideoExists(store, cand.id)
           outcome  == IF ~relevant THEN "not_relevant"
                       ELSE IF exists THEN "exists" ELSE "none"
       IN  IF outcome = "none"
           THEN /\ procs' = [procs EXCEPT ![p].pc = "write", ![p].cand = cand,
                                          ![p].outcome = "none"]
                /\ UNCHANGED last
           ELSE /\ procs' = [procs EXCEPT ![p].cand = cand, ![p].outcome = outcome]
                /\ last' = [adapter |-> procs[p].adapter, cand |-> cand,
                            outcome |-> outcome, ret |-> FALSE]
    /\ UNCHANGED <<cls, store, scan>>

\* the rest of add_video: the media branch, the INSERT and the commit
ConcWrite(p, probe) ==
    /\ procs[p].pc = "write"
    /\ LET cand == procs[p].cand
           ins  == IF procs[p].adapter = "reddit" THEN RedditInsert(cand, probe)
                   ELSE [usable |-> TRUE, row |-> RobotFacts[cand].row]
           outcome == IF ins.usable THEN "stored" ELSE "no_media"
       IN  /\ store' = IF ins.usable THEN Insert(store, ins.row) ELSE store
           /\ procs' = [procs EXCEPT ![p].pc = "idle", ![p].outcome = outcome]
           /\ last' = [adapter |-> procs[p].adapter, cand |-> cand,
                       outcome |-> outcome, ret |-> ins.usable]
    /\ UNCHANGED <<cls, scan>>

\* the thumbnail probes of a process about to write
ConcProbesOf(p) ==
    IF /\ procs[p].pc = "write"
       /\ procs[p].adapter = "reddit"
       /\ RedditFacts[procs[p].cand].youtube_id # None
    THEN ProbeOutcomes
    ELSE {NoProbe}

NextConc ==
    \/ \E p \in 1..Len(procs) :
          \E cand \in (IF procs[p].adapter = "reddit" THEN ConcPosts ELSE VideoInfos) :
             ConcCheck(p, cand)
    \/ \E p \in 1..Len(procs) : \E probe \in ConcProbesOf(p) : ConcWrite(p, probe)

SpecConc == InitConc /\ [][NextConc]_vars

\* C4: when two processes ingest concurrently, whatever the interleaving of
\* their check and write steps, the store holds at most one row per natural
\* key: all video_url values differ and all non-null youtube_id values differ.
C4_OneRowPerKeyConcurrently ==
    LET rows    == 1..Len(store)
        with_id == {i \in rows : store[i].youtube_id # None}
    IN  /\ Cardinality({store[i].video_url : i \in rows}) = Len(store)
        /\ Cardinality({store[i].youtube_id : i \in with_id}) = Cardinality(with_id)

\* C11: an accepted candidate whose title has no fail keyword and no battle
\* keyword of the categorizer at hand gets the category "highlights",
\* whatever its source.
C11_DefaultCategoryWhateverSource ==
    LET title_lower == Lower(cls.title) IN
    /\ ( /\ cls.fn = "reddit" /\ cls.accept
         /\ ~AnyIn(reddit_fail_keywords, title_lower)
         /\ ~AnyIn(reddit_battle_keywords, title_lower) ) => cls.category = "highlights"
    /\ ( /\ cls.fn = "robot" /\ cls.accept
         /\ ~AnyIn(robot_fail_keywords, title_lower)
         /\ ~AnyIn(robot_battle_keywords, title_lower) ) => cls.category = "highlights"
    /\ ( /\ cls.fn = "ugc" /\ cls.accept
         /\ ~AnyIn(ugc_fail_keywords, title_lower)
         /\ ~AnyIn(ugc_battle_keywords, title_lower) ) => cls.category = "highlights"

\* C13: a call of add_video for a relevant candidate ends as a duplicate if
\* and only if, on the table as it was before the call, the candidate's
\* native id, its URL, or its 50-character title prefix matches a stored row.
C13_DuplicateIffAnyCheck ==
    LET reddit     == last.adapter = "reddit"
        before     == IF last.outcome = "stored"
                      THEN SubSeq(store, 1, Len(store) - 1) ELSE store
        youtube_id == IF reddit THEN RedditFacts[last.cand].youtube_id ELSE last.cand.id
        url        == IF reddit THEN last.cand.url ELSE last.cand.webpage_url
        title      == last.cand.title
        any_check  == \/ HasYoutubeId(before, youtube_id)
                      \/ HasVideoUrl(before, url)
                      \/ (title # "" /\ HasTitlePrefix(before, TitlePrefixOf[title]))
    IN  last.outcome \in {"exists", "stored", "no_media"}
        => (last.outcome = "exists" <=> any_check)

\* C14: a call of RedditCurator.add_video for a relevant candidate ends as a
\* duplicate whenever the lower-cased, trimmed first 50 characters of its
\* title equal the lower-cased, trimmed first 50 characters of the title of a
\* row stored before the call, whatever adapter stored that row.
C14_TrimmedPrefixIsDuplicate ==
    LET before == IF last.outcome = "stored"
                  THEN SubSeq(store, 1, Len(store) - 1) ELSE store
        title  == last.cand.title
    IN  ( /\ last.adapter = "reddit"
          /\ last.outcome \in {"exists", "stored", "no_media"}
          /\ title # ""
          /\ \E i \in 1..Len(before) :
                Strip(SqlTitlePrefixOf[before[i].title]) = TitlePrefixOf[title] )
        => last.outcome = "exists"

(***************************************************************************)
(* RobotCurator.run_scan, and one run of either curator with failing       *)
(* fetches and a failing store                                            *)
(***************************************************************************)

MaxPerQuery == 5

\* self.search_queries, its first two entries
search_queries == <<"robot fail compilation 2026", "robot malfunction funny">>

InfoOf(id) == CHOOSE video_info \in VideoInfos : video_info.id = id

\* what a YouTube search can answer to a query; each url stands for the
\* video_info that get_video_info reads from it
SearchResults ==
    { <<>>,
      <<InfoOf("dQw4w9WgXcQ")>>,
      <<InfoOf("aaaaaaaaaaC"), InfoOf("aaaaaaaaaaD")>> }

RobotFeeds == [1..Len(search_queries) -> SearchResults]

InitRobotScan ==
    /\ store = <<>>
    /\ last = NoCall
    /\ cls = NoClassify
    /\ procs = NoProcs
    /\ \E feed \in RobotFeeds :
          scan = [curator |-> "robot", pc |-> "idle", run |-> 0, feed |-> feed,
                  sub |-> 1, sort |-> "search",
                  posts |-> <<>>, added |-> 0, fetched |-> {}, db |-> "up",
                  fetch_failed |-> FALSE, store_failed |-> FALSE,
                  interrupted |-> FALSE, noticed |-> FALSE,
                  went_on |-> FALSE]

\* RobotCurator.run_scan is called: added = 0, the first query
RobotStartScan ==
    /\ scan.curator = "robot"
    /\ scan.pc \in {"idle", "done"}
    /\ scan.run < MaxRuns
    /\ scan' = [scan EXCEPT !.pc = "search", !.run = @ + 1, !.sub = 1,
                            !.posts = <<>>, !.added = 0, !.fetched = {}]
    /\ UNCHANGED <<cls, store, last, procs>>

\* search_youtube: yt-dlp exits with 0, its ids become urls
SearchOk ==
    /\ scan.pc = "search"
    /\ scan' = [scan EXCEPT !.pc = "urls",
                            !.posts = TakeSeq(scan.feed[scan.sub], MaxPerQuery),
                            !.fetched = @ \cup {<<scan.sub, scan.sort>>}]
    /\ UNCHANGED <<cls, store, last, procs>>

\* a search that is tried again and again after it failed
SearchFailRetries ==
    /\ scan.pc = "search"
    /\ scan' = [scan EXCEPT !.fetch_failed = ~@]
    /\ UNCHANGED <<cls, store, last, procs>>

\* search_youtube: yt-dlp exits with another code, or raises: it returns []
SearchFail ==
    /\ scan.pc = "search"
    /\ scan' = [scan EXCEPT !.pc = "urls", !.posts = <<>>, !.fetch_failed = TRUE,
                            !.fetched = @ \cup {<<scan.sub, scan.sort>>}]
    /\ UNCHANGED <<cls, store, last, procs>>

\* for url in urls: video_info = get_video_info(url), None when yt-dlp
\* fails; if video_info: if self.add_video(video_info): added += 1
RobotScanAddVideo(info_ok) ==
    /\ scan.pc = "urls"
    /\ scan.posts # <<>>
    /\ IF info_ok
       THEN LET video_info == Head(scan.posts)
                r == RobotAddVideoOn(store, video_info)
            IN  /\ store' = r.rows
                /\ last' = [adapter |-> "robot", cand |-> video_info,
                            outcome |-> r.outcome, ret |-> r.ret]
                /\ scan' = [scan EXCEPT !.posts = Tail(@),
                                        !.added = IF r.ret THEN @ + 1 ELSE @]
       ELSE /\ scan' = [scan EXCEPT !.posts = Tail(@)]
            /\ UNCHANGED <<store, last>>
    /\ UNCHANGED <<cls, procs>>

\* the urls are used up: time.sleep(2), then the next query, or return added
RobotEndQuery ==
    /\ scan.pc = "urls"
    /\ scan.posts = <<>>
    /\ scan' = IF scan.sub < Len(search_queries)
               THEN [scan EXCEPT !.pc = "search", !.sub = @ + 1]
               ELSE [scan EXCEPT !.pc = "done"]
    /\ UNCHANGED <<cls, store, last, procs>>

InitFaults == InitScan \/ InitRobotScan

\* one run of run_scan, of either curator
NextFaults ==
    \/ scan.pc = "idle" /\ StartScan
    \/ FetchOk
    \/ FetchFail
    \/ \E write_ok \in BOOLEAN : \E probe \in ScanProbesOf(write_ok) :
          ScanAddVideo(probe, write_ok)
    \/ EndListing
    \/ NextSubreddit
    \/ StoreGoesDown
    \/ scan.pc = "idle" /\ RobotStartScan
    \/ SearchOk
    \/ SearchFail
    \/ \E info_ok \in BOOLEAN : RobotScanAddVideo(info_ok)
    \/ RobotEndQuery

SpecFaults == InitFaults /\ [][NextFaults]_vars

\* every fetch a complete run of the curator makes
AllFetches ==
    IF scan.curator = "reddit"
    THEN (1..Len(subreddits)) \X Sorts
    ELSE (1..Len(search_queries)) \X {"search"}

\* C15: a fetch that fails yields no candidate, leaves the store as it was
\* and does not end the run: the run goes on to its next fetch, and a run
\* that has returned has made every fetch of its curator, the failed ones
\* included.
C15_FetchFailureIsLocal ==
    /\ [](scan.pc = "done" => scan.fetched = AllFetches)
    /\ [][ (scan.pc \in {"fetch", "search"} /\ scan'.fetch_failed /\ ~scan.fetch_failed)
           => /\ scan'.posts = <<>>
              /\ scan'.pc \in {"posts", "urls"}
              /\ store' = store ]_vars

\* a run of RedditCurator.run_scan in which a fetch failed has returned, and
\* has stored a video from another listing
C15_FailedFetchRunCompletedWitness ==
    /\ scan.curator = "reddit"
    /\ scan.pc = "done"
    /\ scan.fetch_failed
    /\ scan.fetched = AllFetches
    /\ Len(store) >= 1

\* C16: when the write of an add_video call within run_scan fails, the call
\* reports its candidate as not added, the rows committed before are
\* unchanged, the run's count is unchanged, and run_scan goes on with the
\* rest of the listing.
C16_WriteFailureIsLocal ==
    [][ ( /\ scan.pc = "posts" /\ scan.posts # <<>>
          /\ scan'.db = scan.db
          /\ last'.outcome = "error" )
        => /\ store' = store
           /\ last'.ret = FALSE
           /\ scan'.added = scan.added
           /\ scan'.pc = "posts"
           /\ scan'.posts = Tail(scan.posts) ]_vars

\* a write failed earlier in the run while the store stayed reachable, a
\* later candidate was stored, and the run has returned
C16_StoredAfterFailedWriteWitness ==
    /\ scan.pc = "done"
    /\ scan.store_failed
    /\ scan.db = "up"
    /\ last.outcome = "stored"
    /\ scan.added >= 1

\* C17: once a store call of run_scan has failed because the store
\* connection is gone for good, the run fetches no further listing and
\* processes no further candidate.
C17_StoreDownStopsRun ==
    scan.noticed => ~scan.went_on

(***************************************************************************)
(* An interrupted run of run_scan and the run after it (SpecScan)          *)
(***************************************************************************)

RECURSIVE ScanOrderFrom(_, _)
\* the posts run_scan hands to add_video, in its order, from subreddit
\* number sub on: per subreddit the top listing, then the hot listing
ScanOrderFrom(feed, sub) ==
    IF sub > Len(subreddits) THEN <<>>
    ELSE TakeSeq(feed[<<subreddits[sub], "top">>], LimitPerSub)
         \o TakeSeq(feed[<<subreddits[sub], "hot">>], LimitPerSub \div 2)
         \o ScanOrderFrom(feed, sub + 1)

RECURSIVE AddAll(_, _)
\* the table after add_video of each post in turn
AddAll(rows, posts) ==
    IF posts = <<>> THEN rows
    ELSE AddAll(RedditAddVideoOn(rows, Head(posts), NoProbe).rows, Tail(posts))

\* what a row says about the item it stands for
ItemOf(row) == <<row.title, row.video_url, row.youtube_id>>

ItemsOf(rows) == {ItemOf(rows[i]) : i \in 1..Len(rows)}

\* C18: after a run_scan that was interrupted with rows already written and
\* a later run over the same feed that returned, with no fetch and no write
\* failing, no item is stored twice and the stored items are those of one
\* uninterrupted run on the empty store.
C18_ResumedRunSameItems ==
    ( /\ scan.pc = "done" /\ scan.interrupted
      /\ scan.added < Len(store)
      /\ ~scan.fetch_failed /\ ~scan.store_failed )
    => /\ \A i, j \in 1..Len(store) : i < j => ItemOf(store[i]) # ItemOf(store[j])
       /\ ItemsOf(store) = ItemsOf(AddAll(<<>>, ScanOrderFrom(scan.feed, 1)))

(***************************************************************************)
(* Thumbnails of YouTube videos: add_video of both curators on the empty   *)
(* table, and the backfill of better_thumbnails.py, where cls.probe is     *)
(* what YouTube answers to a probe of each of the three variants           *)
(***************************************************************************)

\* better_thumbnails.best_youtube_thumbnail(youtube_id)
BackfillBestYoutubeThumbnail(youtube_id, probe) ==
    LET candidates == ThumbnailCandidates(youtube_id)
        good(i) == /\ ~ProbeRaised(probe[i])
                   /\ probe[i].status = 200
                   /\ probe[i].length > MinThumbnailBytes
    IN  IF good(1) THEN candidates[1]
        ELSE IF good(2) THEN candidates[2]
        ELSE IF good(3) THEN candidates[3]
        ELSE "https://i.ytimg.com/vi/" \o youtube_id \o "/hqdefault.jpg"

InitThumb ==
    /\ store = <<>>
    /\ last = NoCall
    /\ scan = NoScan
    /\ procs = NoProcs
    /\ \E probe \in ProbeOutcomes : cls = [probe |-> probe]

\* RedditCurator.add_video(post) on the empty table
ThumbRedditAddVideo(post) ==
    /\ store = <<>>
    /\ LET r == RedditAddVideoOn(store, post, cls.probe) IN
       /\ store' = r.rows
       /\ last' = [adapter |-> "reddit", cand |-> post, outcome |-> r.outcome,
                   ret |-> r.ret]
    /\ UNCHANGED <<cls, scan, procs>>

\* RobotCurator.add_video(video_info) on the empty table
ThumbRobotAddVideo(video_info) ==
    /\ store = <<>>
    /\ LET r == RobotAddVideoOn(store, video_info) IN
       /\ store' = r.rows
       /\ last' = [adapter |-> "robot", cand |-> video_info, outcome |-> r.outcome,
                   ret |-> r.ret]
    /\ UNCHANGED <<cls, scan, procs>>

\* the rows fix_youtube_thumbnails selects: status = 'active' and a
\* youtube_id that is neither NULL nor ''
YoutubeRows(rows) ==
    {i \in 1..Len(rows) : /\ rows[i].status = "active"
                          /\ rows[i].youtube_id # None
                          /\ rows[i].youtube_id # ""}

\* fix_youtube_thumbnails that updates every row with a youtube_id, whatever
\* its status and whether or not this is a dry run
FixYoutubeThumbnailsOnEveryRow(rows, probe, dry_run) ==
    [i \in 1..Len(rows) |->
        IF rows[i].youtube_id # None /\ rows[i].youtube_id # ""
        THEN [rows[i] EXCEPT !.thumbnail_url =
                 BackfillBestYoutubeThumbnail(rows[i].youtube_id, probe)]
        ELSE rows[i]]

\* the table after fix_youtube_thumbnails: each selected row whose
\* thumbnail differs from what best_youtube_thumbnail returns is updated,
\* unless this is a dry run
FixYoutubeThumbnailsOn(rows, probe, dry_run) ==
    [i \in 1..Len(rows) |->
        IF i \in YoutubeRows(rows) /\ ~dry_run
        THEN [rows[i] EXCEPT !.thumbnail_url =
                 BackfillBestYoutubeThumbnail(rows[i].youtube_id, probe)]
        ELSE rows[i]]

\* what fix_youtube_thumbnails returns: the number of rows it found with
\* another thumbnail than the best one
FixYoutubeThumbnailsCount(rows, probe) ==
    Cardinality({i \in YoutubeRows(rows) :
        rows[i].thumbnail_url
            # BackfillBestYoutubeThumbnail(rows[i].youtube_id, probe)})

\* better_thumbnails.fix_youtube_thumbnails(conn, dry_run)
FixYoutubeThumbnails(dry_run) ==
    /\ store # <<>>
    /\ store' = FixYoutubeThumbnailsOn(store, cls.probe, dry_run)
    /\ last' = [adapter |-> "backfill",
                cand |-> [title |-> "", dry_run |-> dry_run],
                outcome |-> "youtube",
                ret |-> FixYoutubeThumbnailsCount(store, cls.probe)]
    /\ UNCHANGED <<cls, scan, procs>>

NextThumb ==
    \/ \E post \in RedditPosts : ThumbRedditAddVideo(post)
    \/ \E video_info \in VideoInfos : ThumbRobotAddVideo(video_info)
    \/ \E dry_run \in BOOLEAN : FixYoutubeThumbnails(dry_run)

SpecThumb == InitThumb /\ [][NextThumb]_vars

\* C19: every stored row with a YouTube id has as its thumbnail the first of
\* maxresdefault, sddefault, hqdefault whose probe answers with status 200
\* and more than 5000 bytes, when there is such a variant.
C19_ThumbnailIsFirstGoodVariant ==
    \A i \in 1..Len(store) :
        LET row == store[i]
            good(k) == /\ cls.probe[k].status = 200
                       /\ cls.probe[k].length > MinThumbnailBytes
        IN  (row.youtube_id # None /\ \E k \in 1..3 : good(k))
            => \E k \in 1..3 :
                  /\ good(k)
                  /\ \A j \in 1..(k - 1) : ~good(j)
                  /\ row.thumbnail_url = ThumbnailCandidates(row.youtube_id)[k]

(***************************************************************************)
(* The recency term of the trending order of get_videos.  Time is counted  *)
(* in whole hours, the server's clock is UTC.  A timestamp text is kept as *)
(* its fixed-width fields <<date, separator, hour>>, so that comparing the *)
(* fields in order is comparing the texts as SQLite does; the separator is *)
(* the character code of what stands between date and time.               *)
(***************************************************************************)

MaxAgeHours == 200

\* datetime.now().isoformat(): 'YYYY-MM-DDTHH:MM:SS.ffffff'
IsoFormat(t) == <<t \div 24, 84, t % 24>>

\* datetime('now', modifier) of SQLite: 'YYYY-MM-DD HH:MM:SS'
SqlDatetime(t) == <<t \div 24, 32, t % 24>>

\* a >= b of two TEXT values
TextGeq(a, b) ==
    \/ a[1] > b[1]
    \/ a[1] = b[1] /\ a[2] > b[2]
    \/ a[1] = b[1] /\ a[2] = b[2] /\ a[3] >= b[3]

\* the CASE of the trending ORDER BY
RecencyBonus(created_at, now) ==
    IF TextGeq(created_at, SqlDatetime(now - 24)) THEN 500
    ELSE IF TextGeq(created_at, SqlDatetime(now - 3 * 24)) THEN 200
    ELSE IF TextGeq(created_at, SqlDatetime(now - 7 * 24)) THEN 50
    ELSE 0

\* the hours at which the video is added: early, at noon and late in a day
AddHours == {7 * 24 + h : h \in {0, 1, 12, 23}}

InitTrend ==
    /\ store = <<>>
    /\ last = NoCall
    /\ scan = NoScan
    /\ procs = NoProcs
    /\ \E now \in AddHours :
          cls = [fn |-> "none", now |-> now, added_at |-> now, created_at |-> None,
                 bonus |-> 0]

\* add_video writes created_at = datetime.now().isoformat()
TrendAddVideo ==
    /\ cls.created_at = None
    /\ cls' = [cls EXCEPT !.fn = "add_video", !.created_at = IsoFormat(cls.now)]
    /\ UNCHANGED <<store, last, scan, procs>>

\* an hour passes
Tick ==
    /\ cls.created_at # None
    /\ cls.now - cls.added_at < MaxAgeHours
    /\ cls' = [cls EXCEPT !.fn = "tick", !.now = @ + 1]
    /\ UNCHANGED <<store, last, scan, procs>>

\* get_videos with sort=trending evaluates the recency term for the video
GetVideosTrending ==
    /\ cls.created_at # None
    /\ cls' = [cls EXCEPT !.fn = "trending",
                          !.bonus = RecencyBonus(cls.created_at, cls.now)]
    /\ UNCHANGED <<store, last, scan, procs>>

NextTrend == TrendAddVideo \/ Tick \/ GetVideosTrending

SpecTrend == InitTrend /\ [][NextTrend]_vars

\* C20: the recency bonus of the trending order is 500 for a video less
\* than 24 hours old, 200 between 24 and 72 hours, 50 between 72 hours and
\* 7 days, 0 beyond 7 days (the exact boundary hours are left open).
C20_BonusIsStepFunctionOfAge ==
    LET age == cls.now - cls.added_at IN
    cls.fn = "trending"
    => /\ age < 24 => cls.bonus = 500
       /\ (age > 24 /\ age < 3 * 24) => cls.bonus = 200
       /\ (age > 3 * 24 /\ age < 7 * 24) => cls.bonus = 50
       /\ age > 7 * 24 => cls.bonus = 0

(***************************************************************************)
(* Ingestion and backfill on a table that already holds rows: add_video of *)
(* both curators, and the two passes of better_thumbnails.py               *)
(***************************************************************************)

BUNNY_CDN_URL == "https://clankervids-cdn.b-cdn.net"

\* a row that was in the table before; its id is the one the CDN file
\* names are built from
SeedRow(id, title, video_url, youtube_id, thumbnail_url, status) ==
    [ id            |-> id,
      title         |-> title,
      description   |-> "Discovered by ClankerVids Bot",
      creator       |-> "@admin",
      category      |-> "highlights",
      views         |-> 7,
      clanks        |-> 2,
      epic_bots     |-> 0,
      system_errors |-> 1,
      comments      |-> 0,
      shares        |-> 0,
      thumbnail_url |-> thumbnail_url,
      video_url     |-> video_url,
      status        |-> status,
      duration      |-> DefaultDuration,
      youtube_id    |-> youtube_id,
      view_count    |-> 7 ]

\* a video hosted on the CDN, as approve_queue_item of the admin backend
\* writes it
CdnRow ==
    SeedRow("u1", "drone show", BUNNY_CDN_URL \o "/videos/u1.mp4", None,
            BUNNY_CDN_URL \o "/thumbnails/u1_thumb.jpg", "active")

\* a YouTube video that is not active
PendingRow ==
    SeedRow("p1", "spotted a deer in the rain",
            "https://www.youtube.com/watch?v=aaaaaaaaaaB", "aaaaaaaaaaB",
            "https://i.ytimg.com/vi/aaaaaaaaaaB/hqdefault.jpg", "pending")

SeedTables == { <<>>, <<CdnRow>>, <<PendingRow>> }

\* what YouTube answers for the three variants: all there, maxresdefault a
\* placeholder, every probe raising
BackfillProbes ==
    { [i \in 1..3 |-> [status |-> 200, length |-> 120000]],
      [i \in 1..3 |-> IF i = 1 THEN [status |-> 200, length |-> 1097]
                               ELSE [status |-> 200, length |-> 120000]],
      NoProbe }

InitBackfill ==
    /\ last = NoCall
    /\ scan = NoScan
    /\ procs = NoProcs
    /\ store \in SeedTables
    /\ \E probe \in BackfillProbes : cls = [probe |-> probe]

\* the rows fix_cdn_video_thumbnails selects
CdnRows(rows) ==
    {i \in 1..Len(rows) : /\ rows[i].status = "active"
                          /\ Contains(rows[i].video_url, "b-cdn")}

\* better_thumbnails.fix_cdn_video_thumbnails(conn, dry_run); extracted
\* tells whether download, ffprobe and ffmpeg all worked, uploaded whether
\* the upload to the CDN answered 201
FixCdnVideoThumbnails(dry_run, extracted, uploaded) ==
    /\ store # <<>>
    /\ store' = [i \in 1..Len(store) |->
                    IF i \in CdnRows(store) /\ extracted /\ ~dry_run /\ uploaded
                    THEN [store[i] EXCEPT !.thumbnail_url =
                             BUNNY_CDN_URL \o "/thumbnails/" \o store[i].id \o ".jpg"]
                    ELSE store[i]]
    /\ last' = [adapter |-> "backfill",
                cand |-> [title |-> "", dry_run |-> dry_run],
                outcome |-> "cdn",
                ret |-> IF extracted /\ (dry_run \/ uploaded)
                        THEN Cardinality(CdnRows(store)) ELSE 0]
    /\ UNCHANGED <<cls, scan, procs>>

NextBackfill ==
    \/ \E post \in RedditPosts : RedditAddVideo(post, cls.probe)
    \/ \E video_info \in VideoInfos : RobotAddVideo(video_info)
    \/ \E dry_run \in BOOLEAN : FixYoutubeThumbnails(dry_run)
    \/ \E dry_run, extracted, uploaded \in BOOLEAN :
          FixCdnVideoThumbnails(dry_run, extracted, uploaded)

SpecBackfill == InitBackfill /\ [][NextBackfill]_vars

\* C21: no step of add_video, fix_youtube_thumbnails or
\* fix_cdn_video_thumbnails removes a row: every row of the table is still
\* there afterwards, in its place and with its title, video_url and
\* youtube_id, so the set of stored items only grows.
C21_NoRowEverDeleted ==
    [][ /\ Len(store') >= Len(store)
        /\ \A i \in 1..Len(store) : ItemOf(store'[i]) = ItemOf(store[i]) ]_vars

\* add_video has inserted a row after a backfill pass rewrote the thumbnail
\* of the CDN row that was there before
C21_GrownAfterBackfillWitness ==
    /\ Len(store) = 2
    /\ ItemOf(store[1]) = ItemOf(CdnRow)
    /\ store[1].thumbnail_url = BUNNY_CDN_URL \o "/thumbnails/u1.jpg"
    /\ last.outcome = "stored"

\* C22: in every call of add_video the relevance check comes first, the
\* duplicate check only for a relevant candidate, and the INSERT only for a
\* relevant candidate that video_exists reported absent: a candidate that
\* is not relevant ends as not relevant whatever the table holds, a relevant
\* one that is found ends as existing, and the table changes only when the
\* candidate was relevant and absent.
C22_ClassifyThenResolveThenWrite ==
    [][ LET cand     == last'.cand
            reddit   == last'.adapter = "reddit"
            relevant == IF reddit THEN RedditFacts[cand].relevant
                        ELSE RobotFacts[cand].relevant
            exists   == IF reddit
                        THEN RedditVideoExists(store, cand.url,
                                               RedditFacts[cand].youtube_id, cand.title)
                        ELSE RobotVideoExists(store, cand.id)
        IN  last'.adapter \in {"reddit", "robot"}
            => /\ ~relevant => (last'.outcome = "not_relevant" /\ store' = store)
               /\ (relevant /\ exists) => (last'.outcome = "exists" /\ store' = store)
               /\ store' # store => (relevant /\ ~exists /\ last'.outcome = "stored") ]_vars

\* RedditCurator.add_video has turned down, as not relevant, a candidate
\* that video_exists would have found in the table
C22_RejectedDuplicateWitness ==
    /\ last.adapter = "reddit"
    /\ last.outcome = "not_relevant"
    /\ RedditVideoExists(store, last.cand.url, RedditFacts[last.cand].youtube_id,
                         last.cand.title)

\* C23: run_scan takes its sources in their order and makes, for each, the
\* 'top' fetch and then the 'hot' fetch: a hot fetch of a source comes after
\* its top fetch, a fetch for a source comes after the hot fetch of the
\* source before it, the candidates of a fetch are used up before the next
\* fetch, and a run that has returned has made both fetches for every source.
C23_TopThenHotPerSource ==
    LET sources == {f[1] : f \in AllFetches} IN
    scan.pc # "idle"
    => /\ \A f \in scan.fetched :
             /\ f[2] # "top" => <<f[1], "top">> \in scan.fetched
             /\ f[1] > 1 => <<f[1] - 1, "hot">> \in scan.fetched
       /\ scan.pc \in {"fetch", "search"} => scan.posts = <<>>
       /\ scan.pc = "done"
             => \A i \in sources : /\ <<i, "top">> \in scan.fetched
                                   /\ <<i, "hot">> \in scan.fetched

\* one run of run_scan whose process keeps running: a statement that can be
\* executed is executed
SpecFaultsLive == InitFaults /\ [][NextFaults]_vars /\ WF_vars(NextFaults)

\* C24: a run of run_scan that has begun with a fetch reaches its end and
\* returns, whichever of its fetches succeed, fail or time out and whatever
\* the store does.
C24_RunScanTerminates ==
    (scan.pc \in {"fetch", "search"}) ~> (scan.pc = "done")

\* a run of RobotCurator.run_scan has returned after a search failed and a
\* video from another search was added
C24_ReturnedAfterFailuresWitness ==
    /\ scan.curator = "robot"
    /\ scan.pc = "done"
    /\ scan.fetch_failed
    /\ scan.added >= 1

\* C25: for a title with an empty description from a subreddit that is not
\* a trusted one, RedditCurator and RobotCurator come to the same accept
\* decision and, for an accepted title, to the same category.
C25_AdaptersDecideAlike ==
    ( /\ cls.fn = "reddit"
      /\ cls.description = ""
      /\ ~IsTrustedSub(cls.subreddit) )
    => /\ cls.accept = RobotIsRobotContent(cls.title, "")
       /\ cls.accept => cls.category = RobotCategorizeVideo(cls.title)

\* C26: the row a call of add_video inserts has status 'active', every
\* reaction counter (clanks, epic_bots, system_errors, comments, shares) at
\* 0, and views equal to the candidate's seed: the score of a Reddit post,
\* the view count of a YouTube video.
C26_NewRowActiveZeroSeeded ==
    [][ (last'.outcome = "stored" /\ Len(store') = Len(store) + 1)
        => LET row  == store'[Len(store')]
               seed == IF last'.adapter = "reddit" THEN last'.cand.score
                       ELSE last'.cand.view_count
           IN  /\ row.status = "active"
               /\ row.clanks = 0 /\ row.epic_bots = 0 /\ row.system_errors = 0
               /\ row.comments = 0 /\ row.shares = 0
               /\ row.views = seed ]_vars

\* add_video has inserted a row with a seed next to a row that has reactions
C26_StoredNextToReactionsWitness ==
    /\ Len(store) = 2
    /\ store[1].clanks > 0
    /\ last.outcome = "stored"
    /\ store[2].views > 0

\* C27: RedditCurator.add_video changes the table only for a post with a
\* YouTube id in its url, a v.redd.it url or the is_video flag; a relevant
\* post that is not in the table and has none of the three is dropped, the
\* table staying as it was.
C27_StoredOnlyWithMediaLocator ==
    [][ LET post    == last'.cand
            f       == RedditFacts[post]
            locator == \/ f.youtube_id # None
                       \/ Contains(post.url, "v.redd.it")
                       \/ post.is_video
            absent  == ~RedditVideoExists(store, post.url, f.youtube_id, post.title)
        IN  last'.adapter = "reddit"
            => /\ store' # store => locator
               /\ (f.relevant /\ absent /\ ~locator)
                     => (last'.outcome = "no_media" /\ last'.ret = FALSE
                         /\ store' = store) ]_vars

\* a relevant post that is not in the table, with a link to an image, has
\* been dropped
C27_RelevantWithoutMediaDroppedWitness ==
    /\ last.adapter = "reddit"
    /\ last.outcome = "no_media"
    /\ RedditFacts[last.cand].relevant
    /\ ~last.cand.is_video
    /\ Len(store) >= 1

C29_YoutubeBackfillTouchesOnlyThumbnails ==
    [][ (last'.adapter = "backfill" /\ last'.outcome = "youtube")
          => /\ Len(store') = Len(store)
             /\ \A i \in 1..Len(store) :
                   /\ [store'[i] EXCEPT !.thumbnail_url =
                          store[i].thumbnail_url] = store[i]
                   /\ store'[i] # store[i]
                         => /\ store[i].status = "active"
                            /\ store[i].youtube_id # None
                            /\ store[i].youtube_id # ""
             /\ last'.cand.dry_run => store' = store ]_vars

\* fix_youtube_thumbnails, not a dry run, has just replaced the thumbnail of
\* the one active YouTube row, next to a pending row whose thumbnail is not
\* the best one either and was left alone
C29_ActiveRowUpgradedWitness ==
    /\ last.adapter = "backfill"
    /\ last.outcome = "youtube"
    /\ ~last.cand.dry_run
    /\ last.ret = 1
    /\ Len(store) = 2
    /\ store[1] = PendingRow
    /\ PendingRow.thumbnail_url
          # BackfillBestYoutubeThumbnail(PendingRow.youtube_id, cls.probe)
    /\ store[2].status = "active"
    /\ store[2].thumbnail_url
          = BackfillBestYoutubeThumbnail(store[2].youtube_id, cls.probe)

(***************************************************************************)
(* Bot control of the admin backend (src/app.py)                           *)
(***************************************************************************)

\* how many bot processes the requests of one behaviour launch at most
MaxLaunches == 3

\* the requests the server has in work at the same time: app.run(...) serves
\* each request in a thread of its own and the handlers take no lock
Requests == {1, 2}

\* bot_process = None, bot_status['pid'] = None; a process of pid n is <<n>>
NoProcess == <<>>

\* the globals bot_process and bot_status as the module sets them; alive is
\* the set of processes launched by start_bot that have not exited
NoBot ==
    [bot_process |-> NoProcess,
     bot_status  |-> [running |-> FALSE, paused |-> FALSE, pid |-> NoProcess],
     alive       |-> {},
     launched    |-> 0,
     pc          |-> [t \in Requests |-> "idle"]]

InitBot ==
    /\ store = <<>>
    /\ last = NoCall
    /\ cls = NoClassify
    /\ scan = NoScan
    /\ procs = NoBot

\* bot_process and bot_process.poll() is None
BotProcessAlive ==
    procs.bot_process # NoProcess /\ procs.bot_process[1] \in procs.alive

\* the response of a handler
Response(t, handler, code) ==
    [adapter |-> "admin", cand |-> [title |-> handler, request |-> t],
     outcome |-> IF code = 200 THEN "success" ELSE "error", ret |-> code]

\* start_bot up to its check: 400 'Bot is already running', or on to Popen
StartBotCheck(t) ==
    /\ procs.pc[t] = "idle"
    /\ IF BotProcessAlive
       THEN /\ last' = Response(t, "start_bot", 400)
            /\ UNCHANGED procs
       ELSE /\ procs' = [procs EXCEPT !.pc[t] = "popen"]
            /\ UNCHANGED last
    /\ UNCHANGED <<cls, store, scan>>

\* start_bot from subprocess.Popen on: the process is launched, bot_process
\* and bot_status are set
StartBotLaunch(t) ==
    /\ procs.pc[t] = "popen"
    /\ procs.launched < MaxLaunches
    /\ LET pid == procs.launched + 1 IN
       procs' = [procs EXCEPT !.pc[t] = "idle",
                              !.launched = pid,
                              !.alive = @ \cup {pid},
                              !.bot_process = <<pid>>,
                              !.bot_status = [running |-> TRUE, paused |-> FALSE,
                                              pid |-> <<pid>>]]
    /\ last' = Response(t, "start_bot", 200)
    /\ UNCHANGED <<cls, store, scan>>

\* start_bot when subprocess.Popen raises: 500, nothing is launched
StartBotFails(t) ==
    /\ procs.pc[t] = "popen"
    /\ procs' = [procs EXCEPT !.pc[t] = "idle"]
    /\ last' = Response(t, "start_bot", 500)
    /\ UNCHANGED <<cls, store, scan>>

\* stop_bot up to bot_process.terminate(): with no live process it goes
\* straight to bot_status.update and returns
StopBotTerminate(t) ==
    /\ procs.pc[t] = "idle"
    /\ IF BotProcessAlive
       THEN /\ procs' = [procs EXCEPT !.pc[t] = "wait"]
            /\ UNCHANGED last
       ELSE /\ procs' = [procs EXCEPT !.bot_status =
                            [running |-> FALSE, paused |-> FALSE, pid |-> NoProcess]]
            /\ last' = Response(t, "stop_bot", 200)
    /\ UNCHANGED <<cls, store, scan>>

\* stop_bot after bot_process.wait(timeout=10) returned: the process has
\* exited, bot_status is reset
StopBotWaited(t) ==
    /\ procs.pc[t] = "wait"
    /\ ~BotProcessAlive
    /\ procs' = [procs EXCEPT !.pc[t] = "idle",
                              !.bot_status =
                                  [running |-> FALSE, paused |-> FALSE, pid |-> NoProcess]]
    /\ last' = Response(t, "stop_bot", 200)
    /\ UNCHANGED <<cls, store, scan>>

\* stop_bot when bot_process.wait(timeout=10) raises TimeoutExpired: 500,
\* bot_process and bot_status stay as they were
StopBotTimeout(t) ==
    /\ procs.pc[t] = "wait"
    /\ BotProcessAlive
    /\ procs' = [procs EXCEPT !.pc[t] = "idle"]
    /\ last' = Response(t, "stop_bot", 500)
    /\ UNCHANGED <<cls, store, scan>>

\* pause_bot: 400 unless bot_status['running'], else bot_status['paused']
\* becomes True
PauseBot(t) ==
    /\ procs.pc[t] = "idle"
    /\ IF ~procs.bot_status.running
       THEN /\ last' = Response(t, "pause_bot", 400)
            /\ UNCHANGED procs
       ELSE /\ procs' = [procs EXCEPT !.bot_status.paused = TRUE]
            /\ last' = Response(t, "pause_bot", 200)
    /\ UNCHANGED <<cls, store, scan>>

\* resume_bot: 400 unless bot_status['running'], else bot_status['paused']
\* becomes False
ResumeBot(t) ==
    /\ procs.pc[t] = "idle"
    /\ IF ~procs.bot_status.running
       THEN /\ last' = Response(t, "resume_bot", 400)
            /\ UNCHANGED procs
       ELSE /\ procs' = [procs EXCEPT !.bot_status.paused = FALSE]
            /\ last' = Response(t, "resume_bot", 200)
    /\ UNCHANGED <<cls, store, scan>>

\* a bot process exits: after terminate(), or on its own
BotExits(pid) ==
    /\ pid \in procs.alive
    /\ procs' = [procs EXCEPT !.alive = @ \ {pid}]
    /\ UNCHANGED <<cls, store, last, scan>>

NextBot ==
    \/ \E t \in Requests : StartBotCheck(t)
    \/ \E t \in Requests : StartBotLaunch(t)
    \/ \E t \in Requests : StartBotFails(t)
    \/ \E t \in Requests : StopBotTerminate(t)
    \/ \E t \in Requests : StopBotWaited(t)
    \/ \E t \in Requests : StopBotTimeout(t)
    \/ \E t \in Requests : PauseBot(t)
    \/ \E t \in Requests : ResumeBot(t)
    \/ \E pid \in 1..MaxLaunches : BotExits(pid)

SpecBot == InitBot /\ [][NextBot]_vars

\* C30: whatever start, stop, pause and resume requests the admin sends, at
\* most one bot process launched by start_bot is alive at a time, and
\* start_bot launches nothing while a process it launched is alive.
C30_AtMostOneBotAlive == Cardinality(procs.alive) <= 1

=============================================================================
